---- MODULE Spec2Model ----
(***************************************************************************)
(* Model of SystemStatsServiceImpl (system-stats.service.ts): the          *)
(* ingestion fold saveSystemStats and the rolling-window query             *)
(* getSystemStats, running against a snapshot repository and a detail      *)
(* recorder (SystemInfoService).                                           *)
(*                                                                         *)
(* Numbers reported by the query are kept in thousandths, so that the      *)
(* rounding of toFixed(3) is computed rather than assumed: the literal     *)
(* value v is Num(v) = 1000 * v and an average is Round3(sum, count).      *)
(***************************************************************************)
EXTENDS Integers, Sequences, FiniteSets, TLC

\* ------------------------------------------------------------- bounds
\* Number of saveSystemStats calls in one behaviour.
MaxIngests == 2
\* Largest rpm/fpm value of a leaf host entry in the reports of SpecFold.
MaxVal == 1

\* ------------------------------------------------- program constants
\* The window read starts 14 minutes before the latest time.
WindowMinutes == 14
\* The two averaging horizons, in minutes.
Horizon5 == 5
Horizon15 == 15
\* The scan step of calcDataAvg and the length of a minute, in seconds.
Step == 60
\* toFixed(3): thousandths.
Milli == 1000
\* An absent (undefined) rpm or fpm field of a leaf host entry.
Undefined == -1
\* getLatestStatsTime() resolving to null: no snapshot is stored.
NoTime == -1

\* ------------------------------------------------------------ helpers
\* Map.has / index of a key in an insertion-ordered map (a sequence of
\* entries with a field key).
Has(m, k) == \E i \in 1..Len(m) : m[i].key = k
IndexOf(m, k) == CHOOSE i \in 1..Len(m) : m[i].key = k

\* info.rpm || 0
OrZero(v) == IF v = Undefined \/ v = 0 THEN 0 ELSE v

\* `${source}-${target}`
getLinkKey(source, target) == source \o "-" \o target

\* ------------------------------------------------------ saveSystemStats
NewSystem(name) == [key |-> name, rpm |-> 0, fpm |-> 0, hosts |-> <<>>]
EnsureSystem(systems, name) ==
    IF Has(systems, name) THEN systems ELSE Append(systems, NewSystem(name))

\* A faulty variant: the source accumulates its outbound traffic.
AccumulatedSystemSource(system, target) == system

\* The system whose totals a link's traffic is added to.
AccumulatedSystem(system, target) == target

\* The rpm/fpm written into a detail record for a leaf value.
DetailValue(v) == v

\* Body of the innermost loop (one host entry e of stats[system][target]).
HostStep(acc, time, system, target, e) ==
    LET ti == IndexOf(acc.systems, target)
        hs == IF Has(acc.systems[ti].hosts, e.key)
              THEN acc.systems[ti].hosts
              ELSE Append(acc.systems[ti].hosts, [key |-> e.key, rpm |-> 0, fpm |-> 0])
        hi == IndexOf(hs, e.key)
        hs2 == [hs EXCEPT ![hi].rpm = @ + OrZero(e.val.rpm),
                          ![hi].fpm = @ + OrZero(e.val.fpm)]
    IN [acc EXCEPT !.systems[ti].hosts = hs2,
                   !.rpm = @ + OrZero(e.val.rpm),
                   !.fpm = @ + OrZero(e.val.fpm),
                   !.infos = Append(@, [time |-> time, name |-> target, node |-> e.key,
                                        source |-> system,
                                        rpm |-> DetailValue(e.val.rpm),
                                        fpm |-> DetailValue(e.val.fpm)])]

RECURSIVE FoldHosts(_, _, _, _, _, _)
FoldHosts(acc, time, system, target, hosts, i) ==
    IF i > Len(hosts) THEN acc
    ELSE FoldHosts(HostStep(acc, time, system, target, hosts[i]),
                   time, system, target, hosts, i + 1)

\* Body of the middle loop (one entry te of stats[system]).
TargetStep(acc, time, system, te) ==
    LET a0 == [acc EXCEPT !.systems = EnsureSystem(@, te.key), !.rpm = 0, !.fpm = 0]
        a1 == FoldHosts(a0, time, system, te.key, te.val, 1)
        ai == IndexOf(a1.systems, AccumulatedSystem(system, te.key))
    IN [a1 EXCEPT !.systems[ai].rpm = @ + a1.rpm,
                  !.systems[ai].fpm = @ + a1.fpm,
                  !.links = Append(@, [source |-> system, target |-> te.key,
                                       fpm |-> a1.fpm, rpm |-> a1.rpm])]

RECURSIVE FoldTargets(_, _, _, _, _)
FoldTargets(acc, time, system, targets, i) ==
    IF i > Len(targets) THEN acc
    ELSE FoldTargets(TargetStep(acc, time, system, targets[i]),
                     time, system, targets, i + 1)

\* Body of the outer loop (one entry se of stats).
SystemStep(acc, time, se) ==
    FoldTargets([acc EXCEPT !.systems = EnsureSystem(@, se.key)], time, se.key, se.val, 1)

RECURSIVE FoldSystems(_, _, _, _)
FoldSystems(acc, time, stats, i) ==
    IF i > Len(stats) THEN acc
    ELSE FoldSystems(SystemStep(acc, time, stats[i]), time, stats, i + 1)

\* The synchronous part of saveSystemStats: the snapshot handed to the
\* repository and the detail records handed to the system-info service.
Aggregate(time, stats) ==
    LET acc == FoldSystems([systems |-> <<>>, links |-> <<>>, infos |-> <<>>,
                            rpm |-> 0, fpm |-> 0], time, stats, 1)
    IN [systemStats |-> [time |-> time,
                         nodes |-> [i \in 1..Len(acc.systems) |->
                                      [name |-> acc.systems[i].key,
                                       fpm |-> acc.systems[i].fpm,
                                       rpm |-> acc.systems[i].rpm]],
                         links |-> acc.links],
        systemInfos |-> acc.infos,
        systems |-> acc.systems]

\* ------------------------------------------- the repository (external)
\* getLatestStatsTime(): the most recent snapshot time, or null.
RepoLatestStatsTime(st) ==
    IF DOMAIN st = {} THEN NoTime
    ELSE CHOOSE t \in DOMAIN st : \A u \in DOMAIN st : u <= t

\* The times of a set, most recent first.
RECURSIVE Descending(_)
Descending(ts) ==
    IF ts = {} THEN <<>>
    ELSE LET m == CHOOSE t \in ts : \A u \in ts : u <= t
         IN <<m>> \o Descending(ts \ {m})

\* getSystemStats(begin, end): the snapshots with begin <= time <= end,
\* most recent first.
RepoGetSystemStats(st, begin, end) ==
    LET order == Descending({t \in DOMAIN st : begin <= t /\ t <= end})
    IN [i \in 1..Len(order) |-> st[order[i]]]

\* saveSystemStats(systemStats): one snapshot per time.
RepoSaveSystemStats(st, systemStats) ==
    [t \in DOMAIN st \cup {systemStats.time} |->
        IF t = systemStats.time THEN systemStats ELSE st[t]]

\* saveSystemInfo(systemInfos): the rows are added to the recorder.
InfoSave(rows, systemInfos) ==
    rows \cup {systemInfos[i] : i \in 1..Len(systemInfos)}

\* ------------------------------------------------------- getSystemStats
\* toFixed(3) of sum / count for sum >= 0, count > 0, in thousandths: the
\* nearest thousandth, the larger one on a tie.
Round3(sum, count) == (2 * Milli * sum + count) \div (2 * count)

\* A number that is reported as it is stored.
Num(v) == Milli * v

\* The loop of calcDataAvg.
RECURSIVE CalcLoop(_, _, _, _, _)
CalcLoop(data, time, end, sum, count) ==
    IF time > end THEN [sum |-> sum, count |-> count]
    ELSE IF time \in DOMAIN data
         THEN CalcLoop(data, time + Step, end, sum + data[time], count + 1)
         ELSE CalcLoop(data, time + Step, end, sum, count)

calcDataAvg(data, begin, end) ==
    LET r == CalcLoop(data, begin, end, 0, 0)
    IN IF r.count = 0 THEN 0 ELSE Round3(r.sum, r.count)

\* The value a sequence of Map.set calls leaves for each time: the writers
\* are the positions <<i, j>> of the entries, in iteration order, and the
\* last writer of a time wins.
LastWriter(ps) ==
    CHOOSE p \in ps : \A q \in ps : q[1] < p[1] \/ (q[1] = p[1] /\ q[2] <= p[2])

\* The positions <<i, j>> of the entries stats[i][list][j], list being
\* "nodes" or "links".
Positions(stats, list) ==
    UNION {{<<i, j>> : j \in 1..Len(stats[i][list])} : i \in 1..Len(stats)}

\* nodeMap.get(key)[property]
NodeData(stats, key, property) ==
    LET hits(t) == {p \in Positions(stats, "nodes") :
                       /\ stats[p[1]].time = t
                       /\ stats[p[1]].nodes[p[2]].name = key}
        ts == {stats[i].time : i \in 1..Len(stats)}
    IN [t \in {u \in ts : hits(u) # {}} |->
          LET p == LastWriter(hits(t)) IN stats[p[1]].nodes[p[2]][property]]

\* linkMap.get(key)[property]
LinkData(stats, key, property) ==
    LET hits(t) == {p \in Positions(stats, "links") :
                       /\ stats[p[1]].time = t
                       /\ getLinkKey(stats[p[1]].links[p[2]].source,
                                     stats[p[1]].links[p[2]].target) = key}
        ts == {stats[i].time : i \in 1..Len(stats)}
    IN [t \in {u \in ts : hits(u) # {}} |->
          LET p == LastWriter(hits(t)) IN stats[p[1]].links[p[2]][property]]

\* A faulty variant: the window read starts where the 15-minute scan starts.
WindowBeginAtHorizon(time) == time - Horizon15 * Step

\* The first time of the window read.
WindowBegin(time) == time - WindowMinutes * Step

\* A faulty variant: the window read is open to what was stored after the latest time.
WindowEndOpen(time) == time + WindowMinutes * Step

\* The last time of the window read.
WindowEnd(time) == time

\* A faulty variant: the oldest snapshot of the window is taken for the latest.
LatestStatsOldest(stats) == stats[Len(stats)]

\* latestStats
LatestStats(stats) == stats[1]

calcNodeAvg(stats, time, node, property, minutes) ==
    calcDataAvg(NodeData(stats, node, property), time - minutes * Step, time)

calcLinkAvg(stats, time, source, target, property, minutes) ==
    calcDataAvg(LinkData(stats, getLinkKey(source, target), property),
                time - minutes * Step, time)

EmptyResult == [time |-> 0, nodes |-> <<>>, links |-> <<>>]

\* A faulty variant: result.time is set before stats is found empty.
ResultOfNoStatsTimed(time) == [EmptyResult EXCEPT !.time = time]

\* What the second callback returns for an empty stats.
ResultOfNoStats(time) == EmptyResult

\* The second callback of getSystemStats: time is holder.get("time").
AssembleResult(time, stats) ==
    IF Len(stats) < 1 THEN ResultOfNoStats(time)
    ELSE LET latest == LatestStats(stats)
         IN [time |-> time,
             nodes |-> [i \in 1..Len(latest.nodes) |->
                 LET node == latest.nodes[i]
                 IN <<node.name,
                      <<Num(node.rpm), calcNodeAvg(stats, time, node.name, "rpm", Horizon5),
                        calcNodeAvg(stats, time, node.name, "rpm", Horizon15)>>,
                      <<Num(node.fpm), calcNodeAvg(stats, time, node.name, "fpm", Horizon5),
                        calcNodeAvg(stats, time, node.name, "fpm", Horizon15)>> >>],
             links |-> [i \in 1..Len(latest.links) |->
                 LET link == latest.links[i]
                 IN <<link.source, link.target,
                      <<Num(link.rpm),
                        calcLinkAvg(stats, time, link.source, link.target, "rpm", Horizon5),
                        calcLinkAvg(stats, time, link.source, link.target, "rpm", Horizon15)>>,
                      <<Num(link.fpm),
                        calcLinkAvg(stats, time, link.source, link.target, "fpm", Horizon5),
                        calcLinkAvg(stats, time, link.source, link.target, "fpm", Horizon15)>> >>]]

\* -------------------------------------------------------------- inputs
Leaf(host, rpm, fpm) == [key |-> host, val |-> [rpm |-> rpm, fpm |-> fpm]]
Entry(k, v) == [key |-> k, val |-> v]

\* The times producers report at, in seconds: 900 has 0 fifteen minutes,
\* 60 fourteen minutes and 600 five minutes before it; 870 is not a whole
\* number of minutes away from the others.
Times == {0, 60, 600, 870, 900}

\* The reports of the producers of Spec: the two share the link a -> a-a
\* and the nodes a and a-a; the links of the first have one key; node b and
\* the link b -> a occur in the second only.
QueryReports ==
    { <<Entry("a",   <<Entry("a-a", <<Leaf("h1", 1, 1)>>)>>),
        Entry("a-a", <<Entry("a",   <<Leaf("h1", 2, Undefined)>>)>>)>>,
      <<Entry("a",   <<Entry("a-a", <<Leaf("h1", 4, 0), Leaf("h2", 1, Undefined)>>)>>),
        Entry("b",   <<Entry("a",   <<Leaf("h1", 3, 1)>>)>>)>> }

\* The reports of SpecFold: six shapes, their leaf values drawn from
\* absent and 0..MaxVal.
LeafVals == {Undefined} \cup (0..MaxVal)
InfoVals == [rpm : LeafVals, fpm : LeafVals]
L(host, info) == [key |-> host, val |-> info]
FoldReports ==
    UNION { { <<Entry("a", <<Entry("b", <<L("h1", x), L("h2", y)>>)>>)>>,
              <<Entry("a", <<Entry("b", <<L("h1", x)>>)>>),
                Entry("c", <<Entry("b", <<L("h1", y)>>)>>)>>,
              <<Entry("a", <<Entry("b", <<L("h1", x)>>)>>),
                Entry("b", <<Entry("a", <<L("h1", y)>>)>>)>>,
              <<Entry("a", <<Entry("a", <<L("h1", x)>>), Entry("c", <<L("h2", y)>>)>>),
                Entry("b", <<>>)>>,
              <<Entry("a", <<Entry("a-a", <<L("h1", x)>>)>>),
                Entry("a-a", <<Entry("a", <<L("h1", y)>>)>>)>>,
              <<Entry("a", <<Entry("b", <<>>), Entry("c", <<L("h1", x), L("h2", y)>>)>>)>>
            } : <<x, y>> \in InfoVals \X InfoVals }

StoreErrors == {"StoreError"}
InfoErrors == {"InfoError"}

\* --------------------------------------------------------------- state
VARIABLES
    reports,    \* the reports the producers send
    budget,     \* saveSystemStats calls left
    store,      \* the repository: time -> snapshot
    details,    \* the rows of the system-info service
    ipc,        \* saveSystemStats: idle, saveSystemStats, saveSystemInfo, resolved, rejected
    icall,      \* saveSystemStats: its arguments and locals
    ierror,     \* saveSystemStats: the error it rejects with
    writes,     \* saveSystemStats: the writes it made, in order, with their outcome
    qpc,        \* getSystemStats: idle, getLatestStatsTime, noStats, getSystemStats, done, failed
    holder,     \* getSystemStats: holder.get("time")
    result,     \* getSystemStats: the result it resolved with
    seen,       \* the repository as the window read found it
    reads       \* getSystemStats: the repository reads it issued, in order

vars == <<reports, budget, store, details, ipc, icall, ierror, writes,
          qpc, holder, result, seen, reads>>

NoCall == [time |-> NoTime, stats |-> <<>>,
           systemStats |-> [time |-> NoTime, nodes |-> <<>>, links |-> <<>>],
           systemInfos |-> <<>>, systems |-> <<>>]

InitState ==
    /\ store = <<>>
    /\ details = {}
    /\ ipc = "idle"
    /\ icall = NoCall
    /\ ierror = ""
    /\ writes = <<>>
    /\ qpc = "idle"
    /\ holder = NoTime
    /\ result = EmptyResult
    /\ seen = <<>>
    /\ reads = <<>>

Init ==
    /\ reports = QueryReports
    /\ budget = MaxIngests
    /\ InitState

\* One producer, one report, one call.
InitFold ==
    /\ reports \in {{r} : r \in FoldReports}
    /\ budget = 1
    /\ InitState

\* ---------------------------------------------- saveSystemStats, steps
\* A faulty variant: the detail write is chained whatever the snapshot write did.
OnStatsSettledAlways(ok) == "saveSystemInfo"

\* Where the promise chain goes when the snapshot write settles:
\* .then(onFulfilled) runs the detail write only on success.
OnStatsSettled(ok) == IF ok THEN "saveSystemInfo" ELSE "rejected"

\* A faulty variant: a failed detail write is swallowed.
OnInfoRejectedSwallowed(err) == [pc |-> "resolved", error |-> ""]

\* How saveSystemStats settles when the detail write rejects with err.
OnInfoRejected(err) == [pc |-> "rejected", error |-> err]

\* saveSystemStats(time, stats) up to its return: the fold, and the call
\* of the repository.
IngestCall(time, stats) ==
    /\ ipc \in {"idle", "resolved", "rejected"}
    /\ budget > 0
    /\ budget' = budget - 1
    /\ LET agg == Aggregate(time, stats)
       IN icall' = [time |-> time, stats |-> stats,
                    systemStats |-> agg.systemStats,
                    systemInfos |-> agg.systemInfos,
                    systems |-> agg.systems]
    /\ ipc' = "saveSystemStats"
    /\ ierror' = ""
    /\ writes' = <<>>
    /\ UNCHANGED <<reports, store, details, qpc, holder, result, seen, reads>>

SaveStatsResolved ==
    /\ ipc = "saveSystemStats"
    /\ store' = RepoSaveSystemStats(store, icall.systemStats)
    /\ writes' = Append(writes, [op |-> "saveSystemStats", ok |-> TRUE])
    /\ ipc' = OnStatsSettled(TRUE)
    /\ UNCHANGED <<reports, budget, details, icall, ierror, qpc, holder, result, seen, reads>>

SaveStatsRejected(err) ==
    /\ ipc = "saveSystemStats"
    /\ writes' = Append(writes, [op |-> "saveSystemStats", ok |-> FALSE])
    /\ ipc' = OnStatsSettled(FALSE)
    /\ ierror' = err
    /\ UNCHANGED <<reports, budget, store, details, icall, qpc, holder, result, seen, reads>>

SaveInfoResolved ==
    /\ ipc = "saveSystemInfo"
    /\ details' = InfoSave(details, icall.systemInfos)
    /\ writes' = Append(writes, [op |-> "saveSystemInfo", ok |-> TRUE])
    /\ ipc' = "resolved"
    /\ UNCHANGED <<reports, budget, store, icall, ierror, qpc, holder, result, seen, reads>>

SaveInfoRejected(err) ==
    /\ ipc = "saveSystemInfo"
    /\ writes' = Append(writes, [op |-> "saveSystemInfo", ok |-> FALSE])
    /\ ipc' = OnInfoRejected(err).pc
    /\ ierror' = OnInfoRejected(err).error
    /\ UNCHANGED <<reports, budget, store, details, icall, qpc, holder, result, seen, reads>>

\* ----------------------------------------------- getSystemStats, steps
\* getSystemStats() up to its return: the latest-time read is issued.
QueryCall ==
    /\ qpc \in {"idle", "done", "failed"}
    /\ qpc' = "getLatestStatsTime"
    /\ holder' = NoTime
    /\ result' = EmptyResult
    /\ seen' = <<>>
    /\ reads' = <<[op |-> "getLatestStatsTime", begin |-> 0, end |-> 0]>>
    /\ UNCHANGED <<reports, budget, store, details, ipc, icall, ierror, writes>>

\* The first callback: null returns [ ], a time issues the window read.
LatestResolved ==
    /\ qpc = "getLatestStatsTime"
    /\ LET time == RepoLatestStatsTime(store)
       IN IF time = NoTime
          THEN /\ qpc' = "noStats"
               /\ UNCHANGED <<holder, reads>>
          ELSE /\ holder' = time
               /\ reads' = Append(reads, [op |-> "getSystemStats",
                                          begin |-> WindowBegin(time),
                                          end |-> WindowEnd(time)])
               /\ qpc' = "getSystemStats"
    /\ UNCHANGED <<reports, budget, store, details, ipc, icall, ierror, writes, result, seen>>

\* The second callback on the [ ] of the first.
NoStatsResolved ==
    /\ qpc = "noStats"
    /\ result' = AssembleResult(holder, <<>>)
    /\ qpc' = "done"
    /\ UNCHANGED <<reports, budget, store, details, ipc, icall, ierror, writes,
                   holder, seen, reads>>

\* The second callback on the snapshots of the window read.
WindowResolved ==
    /\ qpc = "getSystemStats"
    /\ LET req == reads[Len(reads)]
       IN result' = AssembleResult(holder, RepoGetSystemStats(store, req.begin, req.end))
    /\ seen' = store
    /\ qpc' = "done"
    /\ UNCHANGED <<reports, budget, store, details, ipc, icall, ierror, writes,
                   holder, reads>>

\* A repository read rejects: no callback runs, the query rejects.
ReadRejected ==
    /\ qpc \in {"getLatestStatsTime", "getSystemStats"}
    /\ qpc' = "failed"
    /\ UNCHANGED <<reports, budget, store, details, ipc, icall, ierror, writes,
                   holder, result, seen, reads>>

\* The repository drops a snapshot (retention is the repository's own).
StoreExpire ==
    /\ \E t \in DOMAIN store :
          store' = [u \in DOMAIN store \ {t} |-> store[u]]
    /\ UNCHANGED <<reports, budget, details, ipc, icall, ierror, writes,
                   qpc, holder, result, seen, reads>>

Next ==
    \/ \E time \in Times, stats \in reports : IngestCall(time, stats)
    \/ SaveStatsResolved
    \/ \E err \in StoreErrors : SaveStatsRejected(err)
    \/ SaveInfoResolved
    \/ \E err \in InfoErrors : SaveInfoRejected(err)
    \/ QueryCall
    \/ LatestResolved
    \/ NoStatsResolved
    \/ WindowResolved
    \/ ReadRejected

NextRetention == Next \/ StoreExpire

Spec == Init /\ [][Next]_vars
SpecFold == InitFold /\ [][Next]_vars
SpecRetention == Init /\ [][NextRetention]_vars

\* =============================================================== claims
\* ------------------------------------------------ what the claims speak of
\* The systems that occur in a report as a source or as a target.
SystemsOf(stats) ==
    {stats[i].key : i \in 1..Len(stats)}
    \cup UNION {{stats[i].val[j].key : j \in 1..Len(stats[i].val)} : i \in 1..Len(stats)}

\* The leaves <<source, target, host, info>> of a report.
LeavesOf(stats) ==
    UNION {UNION {{<<stats[i].key, stats[i].val[j].key,
                     stats[i].val[j].val[k].key, stats[i].val[j].val[k].val>> :
                       k \in 1..Len(stats[i].val[j].val)} :
                  j \in 1..Len(stats[i].val)} : i \in 1..Len(stats)}

\* The sum of a property over the links of a snapshot with one target.
RECURSIVE LinkSum(_, _, _, _)
LinkSum(links, target, property, i) ==
    IF i > Len(links) THEN 0
    ELSE (IF links[i].target = target THEN links[i][property] ELSE 0)
         + LinkSum(links, target, property, i + 1)

\* The sum of f over the set S.
RECURSIVE SumOver(_, _)
SumOver(f, S) ==
    IF S = {} THEN 0
    ELSE LET t == CHOOSE u \in S : TRUE IN f[t] + SumOver(f, S \ {t})

\* A field that is absent counts 0.
Present(v) == IF v = Undefined THEN 0 ELSE v

Called == ipc # "idle"

\* C1: the snapshot handed to the store has exactly one node per system that
\* occurs in the report as a source or as a target, and each node's rpm and
\* fpm are the sums of rpm and fpm over the links of the snapshot whose
\* target is that node (0 for a system that is never a target).
C1_NodeAccumulation ==
    Called =>
        LET nodes == icall.systemStats.nodes
            links == icall.systemStats.links
        IN /\ {nodes[i].name : i \in 1..Len(nodes)} = SystemsOf(icall.stats)
           /\ Len(nodes) = Cardinality(SystemsOf(icall.stats))
           /\ \A i \in 1..Len(nodes) :
                 /\ nodes[i].rpm = LinkSum(links, nodes[i].name, "rpm", 1)
                 /\ nodes[i].fpm = LinkSum(links, nodes[i].name, "fpm", 1)

\* A snapshot in which one node sums two links and a source that sends
\* traffic and receives none has the node total 0.
C1_Witness ==
    /\ Called
    /\ LET nodes == icall.systemStats.nodes
           links == icall.systemStats.links
       IN /\ \E i \in 1..Len(nodes) :
                 /\ nodes[i].rpm >= 2
                 /\ Cardinality({j \in 1..Len(links) :
                        links[j].target = nodes[i].name /\ links[j].rpm > 0}) = 2
          /\ \E i \in 1..Len(nodes), j \in 1..Len(links) :
                 /\ links[j].source = nodes[i].name
                 /\ links[j].rpm > 0
                 /\ nodes[i].rpm = 0

\* The accumulations of a report with absent fields: every link total and
\* every per-host bucket counts an absent field 0.
MissingFieldAccumulates ==
    Called =>
        LET links == icall.systemStats.links
            leaves == LeavesOf(icall.stats)
        IN /\ \A j \in 1..Len(links) :
                 LET own == {l \in leaves : l[1] = links[j].source /\ l[2] = links[j].target}
                 IN /\ links[j].rpm = SumOver([l \in own |-> Present(l[4].rpm)], own)
                    /\ links[j].fpm = SumOver([l \in own |-> Present(l[4].fpm)], own)
           /\ \A i \in 1..Len(icall.systems) :
                 \A h \in 1..Len(icall.systems[i].hosts) :
                    LET own == {l \in leaves : l[2] = icall.systems[i].key
                                               /\ l[3] = icall.systems[i].hosts[h].key}
                    IN /\ icall.systems[i].hosts[h].rpm
                            = SumOver([l \in own |-> Present(l[4].rpm)], own)
                       /\ icall.systems[i].hosts[h].fpm
                            = SumOver([l \in own |-> Present(l[4].fpm)], own)

\* C2: a leaf host entry that lacks fpm (or rpm) does not fail ingestion and
\* contributes 0 everywhere: to the link total, to the target node total, to
\* the per-host bucket, and to the detail record of that host, whose
\* fpm/rpm is 0, not absent.
C2_MissingFieldIsZero ==
    Called =>
        /\ MissingFieldAccumulates
        /\ C1_NodeAccumulation
        /\ Len(icall.systemInfos) = Cardinality(LeavesOf(icall.stats))
        /\ \A l \in LeavesOf(icall.stats) :
              \E i \in 1..Len(icall.systemInfos) :
                 icall.systemInfos[i] =
                    [time |-> icall.time, name |-> l[2], node |-> l[3], source |-> l[1],
                     rpm |-> Present(l[4].rpm), fpm |-> Present(l[4].fpm)]

\* The detail records of a call carry the leaf values as they were given,
\* an absent field absent.
DetailRecordsAreLiteral ==
    Called =>
        /\ Len(icall.systemInfos) = Cardinality(LeavesOf(icall.stats))
        /\ \A l \in LeavesOf(icall.stats) :
              \E i \in 1..Len(icall.systemInfos) :
                 icall.systemInfos[i] =
                    [time |-> icall.time, name |-> l[2], node |-> l[3], source |-> l[1],
                     rpm |-> l[4].rpm, fpm |-> l[4].fpm]

\* C8: the link key identifies the ordered pair: two different ordered pairs
\* (source, target) that ingestion accepts, a pair and its reverse among
\* them, never have the same key, so that two links of a stored snapshot
\* never share a time series.
C8_LinkKeyInjective ==
    \A t \in DOMAIN store :
       \A i, j \in 1..Len(store[t].links) :
          LET a == store[t].links[i]
              b == store[t].links[j]
          IN (a.source # b.source \/ a.target # b.target)
                => getLinkKey(a.source, a.target) # getLinkKey(b.source, b.target)

\* ------------------------------------------------------- query claims
\* The query resolved with what a window read returned.
Answered == qpc = "done" /\ holder # NoTime

\* The snapshots of the repository, as the window read found it, with
\* lo <= time <= hi.
Window(lo, hi) == [t \in {u \in DOMAIN seen : lo <= u /\ u <= hi} |-> seen[t]]

\* The samples of a node in the snapshots snaps (time -> snapshot): the
\* node's value of the property at each time that has the node.
NodeSeries(snaps, name, property) ==
    [t \in {u \in DOMAIN snaps :
               \E i \in 1..Len(snaps[u].nodes) : snaps[u].nodes[i].name = name} |->
        LET i == CHOOSE i \in 1..Len(snaps[t].nodes) : snaps[t].nodes[i].name = name
        IN snaps[t].nodes[i][property]]

\* The samples of the link source -> target in the snapshots snaps.
LinkSeries(snaps, source, target, property) ==
    [t \in {u \in DOMAIN snaps :
               \E i \in 1..Len(snaps[u].links) :
                  snaps[u].links[i].source = source /\ snaps[u].links[i].target = target} |->
        LET i == CHOOSE i \in 1..Len(snaps[t].links) :
                    snaps[t].links[i].source = source /\ snaps[t].links[i].target = target
        IN snaps[t].links[i][property]]

\* v, in thousandths, is sum/count rounded to 3 decimal places over the
\* samples of series at latest - k*60, 0 <= k <= m, and 0 without any.
IsAverage(v, series, latest, m) ==
    LET S == {t \in DOMAIN series : \E k \in 0..m : t = latest - k * 60}
        n == Cardinality(S)
        sum == SumOver(series, S)
    IN IF S = {} THEN v = 0
       ELSE /\ 2 * (v * n - 1000 * sum) <= n
            /\ 2 * (1000 * sum - v * n) <= n

\* The triples of a reported node or link are averages of series(property).
TriplesAverage(rpm, fpm, series(_), latest) ==
    /\ IsAverage(rpm[2], series("rpm"), latest, 5)
    /\ IsAverage(rpm[3], series("rpm"), latest, 15)
    /\ IsAverage(fpm[2], series("fpm"), latest, 5)
    /\ IsAverage(fpm[3], series("fpm"), latest, 15)

NodesAverage(snaps, latest) ==
    \A i \in 1..Len(result.nodes) :
       LET series(property) == NodeSeries(snaps, result.nodes[i][1], property)
       IN TriplesAverage(result.nodes[i][2], result.nodes[i][3], series, latest)

\* only(l): the links the statement is about.
LinksAverage(snaps, latest, only(_)) ==
    \A i \in 1..Len(result.links) :
       only(result.links[i]) =>
          LET series(property) ==
                 LinkSeries(snaps, result.links[i][1], result.links[i][2], property)
          IN TriplesAverage(result.links[i][3], result.links[i][4], series, latest)

AnyLink(l) == TRUE

\* No other link of the snapshots snaps has the key of the reported link l.
KeyUnshared(snaps, l) ==
    \A t \in DOMAIN snaps : \A j \in 1..Len(snaps[t].links) :
       LET o == snaps[t].links[j]
       IN getLinkKey(o.source, o.target) = getLinkKey(l[1], l[2])
             => (o.source = l[1] /\ o.target = l[2])

\* The snapshots the window read of the query returned.
Fetched == Window(reads[Len(reads)].begin, reads[Len(reads)].end)

\* C3: for every reported node and link, metric and horizon m in {5, 15},
\* the reported value is sum/count, rounded to 3 decimal places, over the
\* entity's samples in the fetched snapshots at latestTime - k*60,
\* 0 <= k <= m, and 0 when there is none.
C3_ReportedAverages ==
    Answered =>
        /\ NodesAverage(Fetched, holder)
        /\ LinksAverage(Fetched, holder, AnyLink)

\* The part of C3 that holds: the nodes, and the links whose key no other
\* link of the fetched snapshots has.
AveragesOfUnsharedKeys ==
    Answered =>
        /\ NodesAverage(Fetched, holder)
        /\ LET only(l) == KeyUnshared(Fetched, l)
           IN LinksAverage(Fetched, holder, only)

\* C4: the result lists exactly the nodes and the links of the snapshot
\* whose time is latestTime, in its order, and the first element of every
\* triple is the entity's value in that snapshot; nothing that occurs only
\* in older snapshots is reported.
C4_LatestSnapshotOnly ==
    Answered =>
        /\ holder \in DOMAIN seen
        /\ LET latest == seen[holder]
           IN /\ Len(result.nodes) = Len(latest.nodes)
              /\ Len(result.links) = Len(latest.links)
              /\ \A i \in 1..Len(latest.nodes) :
                    /\ result.nodes[i][1] = latest.nodes[i].name
                    /\ result.nodes[i][2][1] = 1000 * latest.nodes[i].rpm
                    /\ result.nodes[i][3][1] = 1000 * latest.nodes[i].fpm
              /\ \A i \in 1..Len(latest.links) :
                    /\ result.links[i][1] = latest.links[i].source
                    /\ result.links[i][2] = latest.links[i].target
                    /\ result.links[i][3][1] = 1000 * latest.links[i].rpm
                    /\ result.links[i][4][1] = 1000 * latest.links[i].fpm

\* A query answered from a window in which an older snapshot has a node and
\* a link that the latest lacks.
C4_Witness ==
    /\ Answered
    /\ Len(result.nodes) > 0
    /\ \E t \in DOMAIN Fetched :
          /\ t < holder
          /\ \E i \in 1..Len(seen[t].nodes) :
                \A j \in 1..Len(result.nodes) : result.nodes[j][1] # seen[t].nodes[i].name
          /\ \E i \in 1..Len(seen[t].links) :
                \A j \in 1..Len(result.links) :
                   \/ result.links[j][1] # seen[t].links[i].source
                   \/ result.links[j][2] # seen[t].links[i].target

\* C5: the query resolves with {time: 0, nodes: [], links: []} when the
\* store has no latest time, and when it has one and the window read
\* returns no snapshot; in the first case no window read is issued.
C5_EmptyResult ==
    /\ (qpc = "done" /\ (holder = NoTime \/ DOMAIN Fetched = {}))
          => result = [time |-> 0, nodes |-> <<>>, links |-> <<>>]
    /\ (qpc \in {"noStats", "done"} /\ holder = NoTime)
          => \A i \in 1..Len(reads) : reads[i].op # "getSystemStats"
    /\ qpc = "noStats" => holder = NoTime

\* A latest time was read and the window read then returned nothing.
C5_Witness ==
    /\ qpc = "done"
    /\ holder # NoTime
    /\ DOMAIN Fetched = {}

\* The other case of C5: the store had no latest time.
C5_WitnessNoTime ==
    /\ qpc = "done"
    /\ holder = NoTime
    /\ Len(reads) = 1

\* C9: no sample older than latestTime - 14*60 contributes to a reported
\* value: the 15-minute average is over the samples at latestTime - k*60,
\* 0 <= k <= 14, a snapshot at latestTime - 15*60 is left out, and the
\* 5-minute average is over those at 0 <= k <= 5, latestTime - 5*60 among
\* them.
C9_WindowOfFourteenMinutes ==
    Answered =>
        LET snaps == Window(holder - 14 * 60, holder)
            only(l) == KeyUnshared(snaps, l)
        IN /\ NodesAverage(snaps, holder)
           /\ LinksAverage(snaps, holder, only)

\* A query answered while a snapshot at latestTime - 15*60 holds another
\* rpm of a reported node.
C9_Witness ==
    /\ Answered
    /\ holder - 15 * 60 \in DOMAIN seen
    /\ \E i \in 1..Len(result.nodes) :
          LET old == NodeSeries(Window(holder - 15 * 60, holder - 15 * 60),
                                result.nodes[i][1], "rpm")
          IN /\ DOMAIN old # {}
             /\ \A t \in DOMAIN old : 1000 * old[t] # result.nodes[i][2][1]
             /\ result.nodes[i][2][3] = result.nodes[i][2][1]

\* C10: whatever saveSystemStats calls interleave with the two reads of a
\* query, result.time is the time of the snapshot whose nodes and links are
\* reported, and no snapshot with a greater time contributes to a reported
\* value.
C10_ResultTimeIsReportedSnapshot ==
    Answered =>
        /\ result.time = holder
        /\ result.time \in DOMAIN seen
        /\ LET reported == seen[result.time]
           IN /\ reported.time = result.time
              /\ [i \in 1..Len(result.nodes) |-> result.nodes[i][1]]
                    = [i \in 1..Len(reported.nodes) |-> reported.nodes[i].name]
              /\ [i \in 1..Len(result.links) |-> <<result.links[i][1], result.links[i][2]>>]
                    = [i \in 1..Len(reported.links) |->
                          <<reported.links[i].source, reported.links[i].target>>]
        /\ LET snaps == [t \in {u \in DOMAIN Fetched : u <= result.time} |-> seen[t]]
               only(l) == KeyUnshared(Fetched, l)
           IN /\ NodesAverage(snaps, result.time)
              /\ LinksAverage(snaps, result.time, only)

\* A query answered from a repository that, at the window read, held a
\* snapshot newer than the latest time the query had read.
C10_Witness ==
    /\ Answered
    /\ \E t \in DOMAIN seen : t > result.time
    /\ Len(result.nodes) > 0

\* ------------------------------------------------------ ingest claims
StatsWritten == [op |-> "saveSystemStats", ok |-> TRUE]
StatsFailed == [op |-> "saveSystemStats", ok |-> FALSE]
InfoWritten == [op |-> "saveSystemInfo", ok |-> TRUE]
InfoFailed == [op |-> "saveSystemInfo", ok |-> FALSE]

\* C6: the snapshot write happens before the detail write: the detail write
\* is not started before the snapshot write has succeeded, and is not
\* attempted when the snapshot write fails.
C6_SnapshotBeforeDetails ==
    /\ \A i \in 1..Len(writes) :
          writes[i].op = "saveSystemInfo" => (i = 2 /\ writes[1] = StatsWritten)
    /\ ipc = "saveSystemInfo" =>
          /\ writes = <<StatsWritten>>
          /\ icall.time \in DOMAIN store
          /\ store[icall.time] = icall.systemStats
    /\ (Len(writes) > 0 /\ writes[1] = StatsFailed) =>
          /\ writes = <<StatsFailed>>
          /\ ipc = "rejected"

\* Both writes of one call were made.
C6_Witness ==
    /\ Len(writes) = 2
    /\ writes[2].op = "saveSystemInfo"

\* The other case of C6: the snapshot write failed.
C6_WitnessFailure ==
    /\ ipc = "rejected"
    /\ writes = <<StatsFailed>>

\* C7: ingest succeeds if and only if both writes succeed; the failure of
\* either write is the failure of ingest, unchanged and without a retry;
\* when the detail write fails the snapshot already written stays in the
\* store, where a later read finds it.
C7_AllOrFailure ==
    /\ ipc = "resolved" <=> writes = <<StatsWritten, InfoWritten>>
    /\ ipc = "rejected" <=> (writes = <<StatsFailed>> \/ writes = <<StatsWritten, InfoFailed>>)
    /\ (ipc = "rejected" /\ writes = <<StatsFailed>>) => ierror \in StoreErrors
    /\ (ipc = "rejected" /\ writes = <<StatsWritten, InfoFailed>>) =>
          /\ ierror \in InfoErrors
          /\ RepoGetSystemStats(store, icall.time, icall.time) = <<icall.systemStats>>
    /\ ipc # "rejected" => ierror = ""

\* The detail write of a call failed, and a later query reports its snapshot.
C7_Witness ==
    /\ ipc = "rejected"
    /\ writes = <<StatsWritten, InfoFailed>>
    /\ Answered
    /\ result.time = icall.time
    /\ holder \in DOMAIN seen
    /\ seen[holder] = icall.systemStats
    /\ Len(result.nodes) = Len(icall.systemStats.nodes)

====
